---------------------------- MODULE Spec2Model ----------------------------
(***************************************************************************)
(* State-machine model of the XTIRPA configurator: the App shell's stores  *)
(* (objects, selection, tool mode, measurements, render state), the       *)
(* Viewer3D click wiring, the AssetBrowser's part selection / assemble /   *)
(* upload, and the render request of handleGenerateRender.                 *)
(*                                                                         *)
(* Numbers.  All lengths are integers counting HALF units, so that the     *)
(* assemble spacing 1.5 is 3, the default scale 1 is 2 and the upload     *)
(* height 2 is 4.  A distance is kept exactly, as the square root of an    *)
(* integer (Sqrt(n) is the non-negative real whose square is n).           *)
(*                                                                         *)
(* Identifiers.  An object id `${Date.now()}-${random suffix}` is the pair *)
(* <<t, r>>; a measurement id Date.now().toString() is <<t>>; null is <<>>.*)
(***************************************************************************)
EXTENDS Integers, Sequences, FiniteSets, TLC

VARIABLES
    objects,        \* App: SceneObject[]                     (part_000:10)
    selectedId,     \* App: string | null                     (part_000:11)
    mode,           \* App: ToolMode                          (part_000:12)
    measurements,   \* App: Measurement[]                     (part_000:14)
    measuringStart, \* Viewer3D: pending start point | null   (Viewer3D.tsx:235)
    selectedParts,  \* AssetBrowser: Set<string>, in insertion order (AssetBrowser.tsx:24)
    now,            \* the last value Date.now() returned
    canvasRef,      \* App: canvasRef.current is set          (part_000:21)
    isRendering,    \* App: rendering flag                    (part_000:18)
    renderResult,   \* App: string | null                     (part_000:19)
    watermark,      \* App: WatermarkConfig                   (part_000:15)
    pending,        \* generateRendering calls awaiting their outcome
    alerts,         \* number of alert() dialogs shown
    logs,           \* number of console.error entries
    sent,           \* number of generateRendering calls made
    events,         \* number of user events / handler calls so far
    last            \* the last event: [op, idx, point, id, data]

sceneVars  == <<objects, selectedId, mode, measurements, measuringStart,
                selectedParts, now>>
renderVars == <<canvasRef, isRendering, renderResult, watermark, pending,
                alerts, logs, sent>>
vars == <<sceneVars, renderVars, events, last>>

---------------------------------------------------------------------------
(* Bounds of the model *)

MaxEvents == 5      \* user events in one run of the UI
MaxCalls  == 3      \* handler calls in one run of the store harness
MaxClicks == 6      \* handler calls in one run of the measurement harness
MaxNow    == 1      \* Date.now() ranges over 0..MaxNow
NumParts  == 3      \* the first NumParts catalog parts can be toggled

(* Input domains *)
Suffixes   == {1, 2}                 \* values of the random id suffix
GizmoVecs  == {<<2, 4, 6>>}          \* a vector a gizmo drag can produce
ClickPoints == {<<0, 0, 0>>, <<6, 8, 0>>}   \* ray hit points, (0,0,0) and (3,4,0)

NoId    == <<>>
NoPoint == <<>>
Undefined == "undefined"

Modes == {"SELECT", "MOVE", "ROTATE", "SCALE", "MEASURE"}

\* ids a caller can pass: every id the store can hold
AllIds == {<<t, r>> : t \in 0 .. MaxNow, r \in Suffixes}

\* points a measurement click can report
MeasurePoints == {<<x, y, z>> : x \in {0, 6}, y \in {0, 8}, z \in {-2, 0}}

---------------------------------------------------------------------------
(* Plain data helpers *)

\* {}: an object with no fields
NoData == [f \in {} |-> ""]

\* a user event: its kind, the index it is aimed at, the point it hit
Event(op, idx, point) ==
    [op |-> op, idx |-> idx, point |-> point, id |-> NoId, data |-> NoData]

\* a direct call of a handler: its id and object arguments, its point
CallEvent(op, id, data, point) ==
    [op |-> op, idx |-> 0, point |-> point, id |-> id, data |-> data]

\* a || d for text fields: an absent field or the empty text is falsy
StrOr(objData, f, d) ==
    IF f \in DOMAIN objData /\ objData[f] # "" THEN objData[f] ELSE d

\* a || d for array fields: only an absent field is falsy
VecOr(objData, f, d) ==
    IF f \in DOMAIN objData THEN objData[f] ELSE d

\* objData.f for an optional field
Opt(objData, f) ==
    IF f \in DOMAIN objData THEN objData[f] ELSE Undefined

\* { ...o, ...updates }
Merge(o, updates) ==
    [f \in DOMAIN o \cup DOMAIN updates |->
        IF f \in DOMAIN updates THEN updates[f] ELSE o[f]]

\* The App and Viewer3D state a scene handler reads and writes
Store == [objects |-> objects, selectedId |-> selectedId, mode |-> mode,
          measurements |-> measurements, measuringStart |-> measuringStart,
          now |-> now]

\* readings Date.now() can return after the reading S.now
Clock(S) == S.now .. MaxNow

---------------------------------------------------------------------------
(* App: the scene object store *)

NewObj(objData, uniqueId) ==
    [id           |-> uniqueId,
     name         |-> StrOr(objData, "name", "New Object"),
     type         |-> StrOr(objData, "type", "primitive"),
     geometryType |-> Opt(objData, "geometryType"),
     fileUrl      |-> Opt(objData, "fileUrl"),
     position     |-> VecOr(objData, "position", <<0, 0, 0>>),
     rotation     |-> VecOr(objData, "rotation", <<0, 0, 0>>),
     scale        |-> VecOr(objData, "scale", <<2, 2, 2>>),
     color        |-> StrOr(objData, "color", "#ffffff")]

\* faulty variant: selects the first entry and leaves the mode alone
handleAddObject_SelectsFirst(S, objData, t, r) ==
    LET newObj == NewObj(objData, <<t, r>>)
        objs   == Append(S.objects, newObj)
    IN  [S EXCEPT !.objects = objs, !.selectedId = objs[1].id, !.now = t]

\* faulty variant: the new object is put first
handleAddObject_Prepends(S, objData, t, r) ==
    LET newObj == NewObj(objData, <<t, r>>)
    IN  [S EXCEPT !.objects = <<newObj>> \o @,
                  !.selectedId = newObj.id,
                  !.mode = "MOVE",
                  !.now = t]

\* t is the reading of Date.now(), r the random suffix
handleAddObject(S, objData, t, r) ==
    LET newObj == NewObj(objData, <<t, r>>)
    IN  [S EXCEPT !.objects = Append(@, newObj),
                  !.selectedId = newObj.id,
                  !.mode = "MOVE",
                  !.now = t]

\* faulty variant: also merges into the first entry
handleUpdateObject_ByIndex(S, id, updates) ==
    [S EXCEPT !.objects =
        [i \in DOMAIN S.objects |->
            IF i = 1 \/ S.objects[i].id = id
                THEN Merge(S.objects[i], updates) ELSE S.objects[i]]]

handleUpdateObject(S, id, updates) ==
    [S EXCEPT !.objects =
        [i \in DOMAIN S.objects |->
            IF S.objects[i].id = id
                THEN Merge(S.objects[i], updates) ELSE S.objects[i]]]

\* onSelect = setSelectedId
OnSelect(S, id) == [S EXCEPT !.selectedId = id]

---------------------------------------------------------------------------
(* AssetBrowser *)

SYSTEM_PARTS == <<
    [id |-> "p1", name |-> "Aluminium Extrusion 40x40", type |-> "file", geometryType |-> "box",      size |-> "2.1MB"],
    [id |-> "p2", name |-> "L-Bracket Joint",           type |-> "file", geometryType |-> "box",      size |-> "0.4MB"],
    [id |-> "p3", name |-> "Heavy Duty Caster",         type |-> "file", geometryType |-> "sphere",   size |-> "1.2MB"],
    [id |-> "p4", name |-> "Mounting Plate",            type |-> "file", geometryType |-> "box",      size |-> "0.8MB"],
    [id |-> "p5", name |-> "Hydraulic Piston",          type |-> "file", geometryType |-> "cylinder", size |-> "1.5MB"],
    [id |-> "p6", name |-> "Control Panel Housing",     type |-> "file", geometryType |-> "box",      size |-> "3.2MB"],
    [id |-> "p7", name |-> "Safety Guard Panel",        type |-> "file", geometryType |-> "box",      size |-> "1.1MB"],
    [id |-> "p8", name |-> "M8 Fastener Kit",           type |-> "file", geometryType |-> "sphere",   size |-> "0.1MB"] >>

\* the part ids shown in the list that the model toggles
PartIds == {SYSTEM_PARTS[i].id : i \in 1 .. NumParts}

\* SYSTEM_PARTS.find(p => p.id === id): the matching parts, first one first
FindPart(id) == SelectSeq(SYSTEM_PARTS, LAMBDA p : p.id = id)

InSeq(s, x) == \E i \in DOMAIN s : s[i] = x

\* faulty variant: a part toggled in is put first
togglePart_Prepends(parts, id) ==
    IF InSeq(parts, id)
        THEN SelectSeq(parts, LAMBDA x : x # id)
        ELSE <<id>> \o parts

\* new Set(selectedParts) with id deleted if present and added last if not
togglePart(parts, id) ==
    IF InSeq(parts, id)
        THEN SelectSeq(parts, LAMBDA x : x # id)
        ELSE Append(parts, id)

\* faulty variant: every part at the origin
AssembleData_NoOffset(part, index) ==
    [name         |-> part.name,
     type         |-> "primitive",
     geometryType |-> part.geometryType,
     color        |-> "#e0e0e0",
     position     |-> <<0, 0, 0>>]

\* the object data handleAssemble passes for a part at a batch index
AssembleData(part, index) ==
    [name         |-> part.name,
     type         |-> "primitive",
     geometryType |-> part.geometryType,
     color        |-> "#e0e0e0",
     position     |-> <<index * 3, 0, 0>>]

\* selectedParts.forEach(...): every store the loop can end in, over the
\* clock readings and random suffixes of its addObject calls
RECURSIVE AssembleLoop(_, _, _)
AssembleLoop(parts, index, S) ==
    IF parts = <<>> THEN {S}
    ELSE LET found == FindPart(Head(parts))
         IN  IF found = <<>>
                 THEN AssembleLoop(Tail(parts), index, S)
                 ELSE UNION { AssembleLoop(Tail(parts), index + 1,
                                  handleAddObject(S, AssembleData(found[1], index), t, r))
                              : t \in Clock(S), r \in Suffixes }

\* a chosen local file: its name and the object URL created for it
Files == { [name |-> "bracket.glb", url |-> "blob:1"] }

\* faulty variant: the upload is placed at the origin
UploadData_AtOrigin(file) ==
    [name     |-> file.name,
     type     |-> "uploaded",
     fileUrl  |-> file.url,
     color    |-> "#cccccc",
     position |-> <<0, 0, 0>>]

\* the object data handleUpload passes for a chosen file
UploadData(file) ==
    [name     |-> file.name,
     type     |-> "uploaded",
     fileUrl  |-> file.url,
     color    |-> "#cccccc",
     position |-> <<0, 4, 0>>]

---------------------------------------------------------------------------
(* Viewer3D: click wiring *)

\* faulty variant: selects in every mode
SceneItemOnSelect_NoGuard(S, m, i) == OnSelect(S, S.objects[i].id)

\* SceneItem onSelect prop for the object at index i; m is the mode of the render
SceneItemOnSelect(S, m, i) ==
    IF m # "MEASURE" THEN OnSelect(S, S.objects[i].id) ELSE S

\* SceneItem mesh onClick: e.stopPropagation(); onSelect()
SceneItemMeshOnClick(S, m, i) == SceneItemOnSelect(S, m, i)

\* The onClick given to <Canvas>: a DOM click listener of the canvas wrapper.
\* It sees every click on the viewport; stopPropagation of a scene event
\* only ends the delivery inside the scene graph.
CanvasOnClick(S, m) ==
    IF m = "SELECT" THEN OnSelect(S, NoId) ELSE S

\* The two measurement click catchers (an invisible mesh with no geometry and
\* a group with no children) are never intersected by a pointer ray, and they
\* are not ancestors of any SceneItem mesh: no click reaches them.
CatcherIntersected == FALSE

---------------------------------------------------------------------------
(* Viewer3D: measurement capture *)

\* THREE.Vector3.distanceToSquared
DistanceToSquared(a, b) ==
    LET dx == a[1] - b[1]
        dy == a[2] - b[2]
        dz == a[3] - b[3]
    IN  dx * dx + dy * dy + dz * dz

\* Math.sqrt, kept exact: the non-negative real whose square is n
Sqrt(n) == [sqrtOf |-> n]

\* THREE.Vector3.distanceTo
DistanceTo(a, b) == Sqrt(DistanceToSquared(a, b))

\* faulty variant: distance taken from the origin
NewMeasure_FromOrigin(start, p, t) ==
    [id         |-> <<t>>,
     startPoint |-> start,
     endPoint   |-> p,
     distance   |-> DistanceTo(<<0, 0, 0>>, p)]

\* the Measurement built by the second click; t is the reading of Date.now()
NewMeasure(start, p, t) ==
    [id         |-> <<t>>,
     startPoint |-> start,
     endPoint   |-> p,
     distance   |-> DistanceTo(start, p)]

\* faulty variant: the new measurement is put first
OnAddMeasurement_Prepends(S, m) == [S EXCEPT !.measurements = <<m>> \o @]

\* onAddMeasurement = (m) => setMeasurements(prev => [...prev, m])
OnAddMeasurement(S, m) == [S EXCEPT !.measurements = Append(@, m)]

\* m is the mode of the render, p the event's point, t the clock reading
handleCanvasClick(S, m, p, t) ==
    IF m = "MEASURE"
        THEN IF S.measuringStart = NoPoint
                 THEN [S EXCEPT !.measuringStart = p]
                 ELSE [OnAddMeasurement(S, NewMeasure(S.measuringStart, p, t))
                          EXCEPT !.measuringStart = NoPoint, !.now = t]
        ELSE IF m = "SELECT" THEN OnSelect(S, NoId) ELSE S

\* onClick of either catcher
CatcherOnClick(S, m, p, t) ==
    IF m = "MEASURE" THEN handleCanvasClick(S, m, p, t) ELSE S

\* the onObjectChange payload: the mesh's transform, which is the object's
\* with the component the gizmo controls in mode m replaced by v
GizmoUpdates(o, m, v) ==
    [position |-> IF m \notin {"ROTATE", "SCALE"} THEN v ELSE o.position,
     rotation |-> IF m = "ROTATE" THEN v ELSE o.rotation,
     scale    |-> IF m = "SCALE" THEN v ELSE o.scale]

\* a TransformControls is rendered for the SceneItem at index i
GizmoBound(i) ==
    /\ i \in DOMAIN objects
    /\ objects[i].id = selectedId
    /\ mode # "SELECT" /\ mode # "MEASURE"

---------------------------------------------------------------------------
(* The UI: one action per user event *)

Init ==
    /\ objects = <<>>
    /\ selectedId = NoId
    /\ mode = "SELECT"
    /\ measurements = <<>>
    /\ measuringStart = NoPoint
    /\ selectedParts = <<>>
    /\ now = 0
    /\ canvasRef = FALSE
    /\ isRendering = FALSE
    /\ renderResult = "null"
    /\ watermark = [enabled |-> TRUE, text |-> "DRAFT", opacity |-> 1]
    /\ pending = <<>>
    /\ alerts = 0
    /\ logs = 0
    /\ sent = 0
    /\ events = 0
    /\ last = Event("init", 0, NoPoint)

\* write a scene handler's result back
Commit(S) ==
    /\ objects' = S.objects
    /\ selectedId' = S.selectedId
    /\ mode' = S.mode
    /\ measurements' = S.measurements
    /\ measuringStart' = S.measuringStart
    /\ now' = S.now

UserEvent(op, idx, point) ==
    /\ events < MaxEvents
    /\ events' = events + 1
    /\ last' = Event(op, idx, point)

\* the Toolbar's tool buttons, left to right
ToolButtons == <<"SELECT", "MOVE", "ROTATE", "SCALE", "MEASURE">>

\* the place of the button of tool m
ToolIndex(m) == CHOOSE i \in DOMAIN ToolButtons : ToolButtons[i] = m

\* faulty variant: choosing a tool also drops the selection
SetMode_ClearsSelection(m) ==
    /\ UserEvent("setMode", ToolIndex(m), NoPoint)
    /\ mode' = m
    /\ selectedId' = NoId
    /\ UNCHANGED <<objects, measurements, measuringStart,
                   selectedParts, now, renderVars>>

\* a Toolbar tool button; idx is the place of the button
SetMode(m) ==
    /\ UserEvent("setMode", ToolIndex(m), NoPoint)
    /\ mode' = m
    /\ UNCHANGED <<objects, selectedId, measurements, measuringStart,
                   selectedParts, now, renderVars>>

\* the place of the part with a given id in the list
PartIndex(id) == CHOOSE i \in DOMAIN SYSTEM_PARTS : SYSTEM_PARTS[i].id = id

\* the checkbox of a listed part; idx is the place of the part
TogglePart(id) ==
    /\ UserEvent("togglePart", PartIndex(id), NoPoint)
    /\ selectedParts' = togglePart(selectedParts, id)
    /\ UNCHANGED <<objects, selectedId, mode, measurements, measuringStart,
                   now, renderVars>>

\* the Assemble Selected button (disabled while nothing is selected)
handleAssemble ==
    /\ selectedParts # <<>>
    /\ UserEvent("assemble", Len(selectedParts), NoPoint)
    /\ \E S \in AssembleLoop(selectedParts, 0, Store) : Commit(S)
    /\ selectedParts' = <<>>
    /\ UNCHANGED renderVars

\* the file input's change event, with a file chosen (idx 1) or none (idx 0)
handleUpload ==
    /\ \/ /\ UserEvent("upload", 0, NoPoint)
          /\ UNCHANGED sceneVars
       \/ /\ UserEvent("upload", 1, NoPoint)
          /\ \E file \in Files, t \in Clock(Store), r \in Suffixes :
                Commit(handleAddObject(Store, UploadData(file), t, r))
          /\ UNCHANGED selectedParts
    /\ UNCHANGED renderVars

\* a click whose ray hits the mesh of the object at index i, at point p
ClickObject(i, p) ==
    /\ i \in DOMAIN objects
    /\ UserEvent("clickObject", i, p)
    /\ LET m  == mode
           S1 == IF CatcherIntersected
                     THEN CatcherOnClick(Store, m, p, now)
                     ELSE SceneItemMeshOnClick(Store, m, i)
           S2 == CanvasOnClick(S1, m)
       IN  Commit(S2)
    /\ UNCHANGED <<selectedParts, renderVars>>

\* a click whose ray hits nothing that has a handler
ClickEmpty ==
    /\ UserEvent("clickEmpty", 0, NoPoint)
    /\ Commit(CanvasOnClick(Store, mode))
    /\ UNCHANGED <<selectedParts, renderVars>>

\* one change event of the gizmo bound to the mesh at index i
GizmoChange(i, v) ==
    /\ GizmoBound(i)
    /\ UserEvent("gizmo", i, NoPoint)
    /\ Commit(handleUpdateObject(Store, objects[i].id,
                                 GizmoUpdates(objects[i], mode, v)))
    /\ UNCHANGED <<selectedParts, renderVars>>

NextScene ==
    \/ \E m \in Modes : SetMode(m)
    \/ \E id \in PartIds : TogglePart(id)
    \/ handleAssemble
    \/ handleUpload
    \/ \E i \in DOMAIN objects, p \in ClickPoints : ClickObject(i, p)
    \/ ClickEmpty
    \/ \E i \in DOMAIN objects, v \in GizmoVecs : GizmoChange(i, v)

SpecScene == Init /\ [][NextScene]_vars

---------------------------------------------------------------------------
(* The App's store handlers called directly, as its children call them *)

ObjDataInputs ==
    { NoData,
      [type |-> "primitive", geometryType |-> "box"],
      [name |-> "", color |-> "#ff0000", rotation |-> <<0, 2, 0>>, scale |-> <<4, 4, 4>>],
      UploadData([name |-> "bracket.glb", url |-> "blob:1"]) }

UpdateInputs ==
    { NoData,
      [position |-> <<2, 4, 6>>],
      [name |-> "Renamed", color |-> "#00ff00"],
      [rotation |-> <<0, 2, 0>>, scale |-> <<4, 4, 4>>] }

HandlerCall(op, id, data, point) ==
    /\ events < MaxCalls
    /\ events' = events + 1
    /\ last' = CallEvent(op, id, data, point)

CallAddObject(objData) ==
    /\ HandlerCall("addObject", NoId, objData, NoPoint)
    /\ \E t \in Clock(Store), r \in Suffixes :
          Commit(handleAddObject(Store, objData, t, r))
    /\ UNCHANGED <<selectedParts, renderVars>>

CallUpdateObject(id, updates) ==
    /\ HandlerCall("updateObject", id, updates, NoPoint)
    /\ Commit(handleUpdateObject(Store, id, updates))
    /\ UNCHANGED <<selectedParts, renderVars>>

CallOnSelect(id) ==
    /\ HandlerCall("onSelect", id, NoData, NoPoint)
    /\ Commit(OnSelect(Store, id))
    /\ UNCHANGED <<selectedParts, renderVars>>

CallSetMode(m) ==
    /\ HandlerCall("setMode", NoId, NoData, NoPoint)
    /\ mode' = m
    /\ UNCHANGED <<objects, selectedId, measurements, measuringStart,
                   selectedParts, now, renderVars>>

NextStore ==
    \/ \E objData \in ObjDataInputs : CallAddObject(objData)
    \/ \E id \in AllIds, updates \in UpdateInputs : CallUpdateObject(id, updates)
    \/ \E id \in AllIds \cup {NoId} : CallOnSelect(id)
    \/ \E m \in Modes : CallSetMode(m)

SpecStore == Init /\ [][NextStore]_vars

---------------------------------------------------------------------------
(* Viewer3D's handleCanvasClick and the measurement list called directly *)

MeasureCall(op, point) ==
    /\ events < MaxClicks
    /\ events' = events + 1
    /\ last' = CallEvent(op, NoId, NoData, point)

CallHandleCanvasClick(p) ==
    /\ MeasureCall("canvasClick", p)
    /\ \E t \in Clock(Store) : Commit(handleCanvasClick(Store, mode, p, t))
    /\ UNCHANGED <<selectedParts, renderVars>>

\* a press of Clear All; idx is the length of the list it was pressed on
ClearEvent ==
    /\ events < MaxClicks
    /\ events' = events + 1
    /\ last' = [CallEvent("clearAll", NoId, NoData, NoPoint)
                    EXCEPT !.idx = Len(measurements)]

\* faulty variant: removes the last measurement only
ClearAll_DropsLast ==
    /\ measurements # <<>>
    /\ ClearEvent
    /\ measurements' = SubSeq(measurements, 1, Len(measurements) - 1)
    /\ UNCHANGED <<objects, selectedId, mode, measuringStart,
                   selectedParts, now, renderVars>>

\* the Clear All button, shown while the list is not empty
ClearAll ==
    /\ measurements # <<>>
    /\ ClearEvent
    /\ measurements' = <<>>
    /\ UNCHANGED <<objects, selectedId, mode, measuringStart,
                   selectedParts, now, renderVars>>

\* the mode prop Viewer3D is rendered with
PropMode(m) ==
    /\ MeasureCall("setMode", NoPoint)
    /\ mode' = m
    /\ UNCHANGED <<objects, selectedId, measurements, measuringStart,
                   selectedParts, now, renderVars>>

NextMeasure ==
    \/ \E p \in MeasurePoints : CallHandleCanvasClick(p)
    \/ \E m \in Modes : PropMode(m)
    \/ ClearAll
    \/ \E objData \in {NoData} : CallAddObject(objData)

SpecMeasure == Init /\ [][NextMeasure]_vars

---------------------------------------------------------------------------
(* App: the render request *)

NoResult == "null"

\* the image the external service returns for the k-th request
Images == <<"data:image/1", "data:image/2", "data:image/3",
            "data:image/4", "data:image/5", "data:image/6">>

\* texts typed into the watermark input
WatermarkTexts == {"", "FINAL"}

\* The App state handleGenerateRender reads and writes
Render == [isRendering |-> isRendering, renderResult |-> renderResult,
           pending |-> pending, alerts |-> alerts, logs |-> logs,
           sent |-> sent]

CommitRender(R) ==
    /\ isRendering' = R.isRendering
    /\ renderResult' = R.renderResult
    /\ pending' = R.pending
    /\ alerts' = R.alerts
    /\ logs' = R.logs
    /\ sent' = R.sent

Remove(s, k) == SubSeq(s, 1, k - 1) \o SubSeq(s, k + 1, Len(s))

\* the modal that covers the page
ModalOpen == isRendering \/ renderResult # NoResult

\* faulty variant: the text is sent also when the watermark is off
RenderSubmit_IgnoresEnabled(R, ref, wm) ==
    IF ~ref THEN R
    ELSE [R EXCEPT !.isRendering = TRUE,
                   !.sent = @ + 1,
                   !.pending = Append(@, [id |-> R.sent + 1, wmText |-> wm.text])]

\* faulty variant: the request is made without testing canvasRef.current
RenderSubmit_NoRefCheck(R, ref, wm) ==
    [R EXCEPT !.isRendering = TRUE,
              !.sent = @ + 1,
              !.pending = Append(@, [id |-> R.sent + 1,
                                     wmText |-> IF wm.enabled THEN wm.text ELSE ""])]

\* handleGenerateRender up to its await: ref is canvasRef.current being set,
\* wm the watermark of the render the handler closes over
RenderSubmit(R, ref, wm) ==
    IF ~ref THEN R
    ELSE [R EXCEPT !.isRendering = TRUE,
                   !.sent = @ + 1,
                   !.pending = Append(@, [id |-> R.sent + 1,
                                          wmText |-> IF wm.enabled THEN wm.text ELSE ""])]

\* faulty variant: the flag is not cleared on success
RenderFulfilled_NoFinally(R, k) ==
    [R EXCEPT !.renderResult = Images[R.pending[k].id],
              !.pending = Remove(@, k)]

\* the await returns a result for the k-th pending call: setRenderResult, finally
RenderFulfilled(R, k) ==
    [R EXCEPT !.renderResult = Images[R.pending[k].id],
              !.isRendering = FALSE,
              !.pending = Remove(@, k)]

\* faulty variant: the flag is not cleared on failure
RenderFailed_NoFinally(R, k) ==
    [R EXCEPT !.alerts = @ + 1,
              !.logs = @ + 1,
              !.pending = Remove(@, k)]

\* the await throws for the k-th pending call: catch, finally
RenderFailed(R, k) ==
    [R EXCEPT !.alerts = @ + 1,
              !.logs = @ + 1,
              !.isRendering = FALSE,
              !.pending = Remove(@, k)]

\* the Canvas attaches the forwarded ref when it mounts
CanvasMount ==
    /\ ~canvasRef
    /\ canvasRef' = TRUE
    /\ last' = Event("mount", 0, NoPoint)
    /\ UNCHANGED <<isRendering, renderResult, watermark, pending, alerts,
                   logs, sent, events, sceneVars>>

\* the watermark checkbox
ToggleWatermark ==
    /\ UserEvent("watermarkEnabled", 0, NoPoint)
    /\ watermark' = [watermark EXCEPT !.enabled = ~@]
    /\ UNCHANGED <<canvasRef, isRendering, renderResult, pending, alerts,
                   logs, sent, sceneVars>>

\* the watermark text input (disabled while the watermark is off)
EditWatermark(text) ==
    /\ watermark.enabled
    /\ UserEvent("watermarkText", 0, NoPoint)
    /\ watermark' = [watermark EXCEPT !.text = text]
    /\ UNCHANGED <<canvasRef, isRendering, renderResult, pending, alerts,
                   logs, sent, sceneVars>>

\* the Generate Render button, pressed with the pointer (which the modal
\* intercepts) or with the keyboard while it has the focus
handleGenerateRender(via) ==
    /\ via = "pointer" => ~ModalOpen
    /\ UserEvent("render", sent + 1, NoPoint)
    /\ CommitRender(RenderSubmit(Render, canvasRef, watermark))
    /\ UNCHANGED <<canvasRef, watermark, sceneVars>>

\* the external call of the k-th pending request returns an image
RenderResolves(k) ==
    /\ k \in DOMAIN pending
    /\ last' = Event("resolved", pending[k].id, NoPoint)
    /\ CommitRender(RenderFulfilled(Render, k))
    /\ UNCHANGED <<canvasRef, watermark, events, sceneVars>>

\* the external call of the k-th pending request rejects
RenderRejects(k) ==
    /\ k \in DOMAIN pending
    /\ last' = Event("rejected", pending[k].id, NoPoint)
    /\ CommitRender(RenderFailed(Render, k))
    /\ UNCHANGED <<canvasRef, watermark, events, sceneVars>>

\* the modal's close buttons, shown with a result
CloseResult ==
    /\ ~isRendering /\ renderResult # NoResult
    /\ UserEvent("close", 0, NoPoint)
    /\ renderResult' = NoResult
    /\ UNCHANGED <<canvasRef, isRendering, watermark, pending, alerts,
                   logs, sent, sceneVars>>

NextRender ==
    \/ CanvasMount
    \/ ToggleWatermark
    \/ \E text \in WatermarkTexts : EditWatermark(text)
    \/ \E via \in {"pointer", "keyboard"} : handleGenerateRender(via)
    \/ \E k \in DOMAIN pending : RenderResolves(k)
    \/ \E k \in DOMAIN pending : RenderRejects(k)
    \/ CloseResult

SpecRender == Init /\ [][NextRender]_vars

\* the external call of the request numbered id completes or fails
RenderSettles(id) ==
    \E k \in DOMAIN pending :
        pending[k].id = id /\ (RenderResolves(k) \/ RenderRejects(k))

\* the numbers a request can carry
RequestIds == 1 .. MaxEvents

\* The render request under the assumption that every call of the external
\* service eventually returns or throws
SpecRenderFair ==
    SpecRender /\ \A id \in RequestIds : WF_vars(RenderSettles(id))

---------------------------------------------------------------------------
(* Properties *)

IdsOf(objs) == [i \in DOMAIN objs |-> objs[i].id]

IsPrefix(s, t) == Len(s) <= Len(t) /\ SubSeq(t, 1, Len(s)) = s

LastOf(s) == s[Len(s)]

IsClick(e) == e.op \in {"clickObject", "clickEmpty"}

\* the catalog entry with a given id
PartById(id) ==
    CHOOSE part \in {SYSTEM_PARTS[i] : i \in DOMAIN SYSTEM_PARTS} : part.id = id

\* Q - P, and the Euclidean norm of a vector
Sub(q, p) == <<q[1] - p[1], q[2] - p[2], q[3] - p[3]>>
Norm(v) == Sqrt(v[1] * v[1] + v[2] * v[2] + v[3] * v[3])

\* C1: one addObject call, from whatever mode and selection, appends exactly
\* one object at the end of the store, selects its id and sets the mode to
\* MOVE.
C1_AddObjectAppendsSelectsMoves ==
    [][last'.op = "addObject" =>
        /\ Len(objects') = Len(objects) + 1
        /\ SubSeq(objects', 1, Len(objects)) = objects
        /\ selectedId' = LastOf(objects').id
        /\ mode' = "MOVE"]_vars

\* C1 witness: the first call ever made added a box primitive: one object,
\* selected, mode MOVE.
C1_Witness ==
    /\ last.op = "addObject" /\ events = 1
    /\ Len(objects) = 1
    /\ objects[1].type = "primitive" /\ objects[1].geometryType = "box"
    /\ selectedId = objects[1].id
    /\ mode = "MOVE"

\* C2: after every sequence of addObject calls the objects of the store have
\* pairwise distinct ids, and they are in the order of the calls (every step
\* keeps the ids already stored as a prefix).
C2_DistinctIdsInCallOrder ==
    [][/\ \A i, j \in DOMAIN objects' : i # j => objects'[i].id # objects'[j].id
       /\ IsPrefix(IdsOf(objects), IdsOf(objects'))]_vars

\* C3: updateObject(id, partial) sets the fields of partial on the entries
\* whose id matches, keeps their other fields and every other entry, keeps
\* the length and the order, does nothing when no id matches, and keeps the
\* selection and the mode.
C3_UpdateObjectFrame ==
    [][last'.op = "updateObject" =>
        LET id == last'.id
            partial == last'.data
        IN  /\ Len(objects') = Len(objects)
            /\ \A i \in DOMAIN objects :
                  IF objects[i].id = id
                      THEN /\ DOMAIN objects'[i] = DOMAIN objects[i]
                           /\ \A f \in DOMAIN objects[i] :
                                 objects'[i][f] = IF f \in DOMAIN partial
                                                      THEN partial[f]
                                                      ELSE objects[i][f]
                      ELSE objects'[i] = objects[i]
            /\ (\A i \in DOMAIN objects : objects[i].id # id) => objects' = objects
            /\ selectedId' = selectedId
            /\ mode' = mode]_vars

\* C3 witness: an update of the position reached one entry of a store that
\* also holds an entry with another id.
C3_Witness ==
    /\ last.op = "updateObject"
    /\ "position" \in DOMAIN last.data
    /\ \E i, j \in DOMAIN objects :
          /\ objects[i].id = last.id
          /\ objects[i].position = last.data.position
          /\ objects[j].id # last.id
          /\ objects[j].position # last.data.position

\* C4: in measure mode a click on an object's surface with no pending start
\* point records the clicked point as the pending start, and the next such
\* click appends one Measurement from the pending start to the clicked point
\* and empties the pending start.
C4_MeasureClicksPair ==
    [][(last'.op = "clickObject" /\ mode = "MEASURE") =>
        IF measuringStart = NoPoint
            THEN /\ measuringStart' = last'.point
                 /\ measurements' = measurements
            ELSE /\ Len(measurements') = Len(measurements) + 1
                 /\ IsPrefix(measurements, measurements')
                 /\ LastOf(measurements').startPoint = measuringStart
                 /\ LastOf(measurements').endPoint = last'.point
                 /\ measuringStart' = NoPoint]_vars

\* C5: in select mode, after all the handlers of one click have run, a click
\* on object X leaves X's id selected and a click on empty space leaves
\* nothing selected.
C5_SelectModeClick ==
    /\ (last.op = "clickObject" /\ mode = "SELECT")
          => selectedId = objects[last.idx].id
    /\ (last.op = "clickEmpty" /\ mode = "SELECT")
          => selectedId = NoId

\* C6: while the mode is MOVE, ROTATE or SCALE and an object is selected, a
\* click on an object or on empty space leaves the selection unchanged.
C6_NoReselectInGizmoModes ==
    [][(IsClick(last') /\ mode \in {"MOVE", "ROTATE", "SCALE"} /\ selectedId # NoId)
          => selectedId' = selectedId]_vars

\* C7: in measure mode no click, on an object or on empty space, changes the
\* selection.
C7_MeasureClickKeepsSelection ==
    [][(IsClick(last') /\ mode = "MEASURE") => selectedId' = selectedId]_vars

\* C7 witness: in measure mode an object other than the selected one was
\* clicked, and the selection is still there.
C7_Witness ==
    /\ last.op = "clickObject" /\ mode = "MEASURE"
    /\ selectedId # NoId
    /\ objects[last.idx].id # selectedId

\* C8: the measurement handleCanvasClick creates from the pending start P and
\* the clicked point Q has distance = the Euclidean norm of Q - P, which is
\* also that of P - Q.
C8_DistanceIsEuclideanNorm ==
    [][(last'.op = "canvasClick" /\ mode = "MEASURE" /\ measuringStart # NoPoint) =>
        LET P == measuringStart
            Q == last'.point
            m == LastOf(measurements')
        IN  /\ Len(measurements') = Len(measurements) + 1
            /\ m.startPoint = P
            /\ m.endPoint = Q
            /\ m.distance = Norm(Sub(Q, P))
            /\ m.distance = Norm(Sub(P, Q))]_vars

\* C8 witness: clicks at (0,0,0) and (3,4,0) made one measurement of
\* distance 5 (in half units: (6,8,0), distance 10 = the root of 100).
C8_Witness ==
    /\ last.op = "canvasClick"
    /\ Len(measurements) = 1
    /\ measurements[1].startPoint = <<0, 0, 0>>
    /\ measurements[1].endPoint = <<6, 8, 0>>
    /\ measurements[1].distance = Sqrt(10 * 10)

\* C9: assemble with k selected parts appends k objects, the i-th (from 0)
\* carrying the name and geometry tag of the i-th selected part at position
\* (1.5 i, 0, 0), and leaves the selection set of parts empty.
C9_AssembleBatch ==
    [][last'.op = "assemble" =>
        LET k == Len(selectedParts)
            n == Len(objects)
        IN  /\ Len(objects') = n + k
            /\ SubSeq(objects', 1, n) = objects
            /\ \A i \in 0 .. k - 1 :
                  LET o == objects'[n + 1 + i]
                      part == PartById(selectedParts[i + 1])
                  IN  /\ o.name = part.name
                      /\ o.geometryType = part.geometryType
                      /\ o.position = <<3 * i, 0, 0>>
            /\ selectedParts' = <<>>]_vars

\* C9 witness: a batch of two parts put its objects at x = 0 and x = 1.5.
C9_Witness ==
    /\ last.op = "assemble" /\ last.idx = 2
    /\ Len(objects) >= 2
    /\ objects[Len(objects) - 1].position = <<0, 0, 0>>
    /\ objects[Len(objects)].position = <<3, 0, 0>>
    /\ objects[Len(objects) - 1].geometryType # objects[Len(objects)].geometryType
    /\ selectedParts = <<>>

\* C10: when a render call fails the rendering flag is false afterwards, the
\* render result is what it was, one alert and one log entry are added and
\* no further request is sent.
C10_RenderFailure ==
    [][last'.op = "rejected" =>
        /\ isRendering' = FALSE
        /\ renderResult' = renderResult
        /\ alerts' = alerts + 1
        /\ logs' = logs + 1
        /\ sent' = sent]_vars

\* C10 witness: the only request made was rejected: flag false, result
\* unset, one alert, one log entry, one request sent.
C10_Witness ==
    /\ last.op = "rejected"
    /\ ~isRendering
    /\ renderResult = NoResult
    /\ alerts = 1 /\ logs = 1 /\ sent = 1
    /\ pending = <<>>

\* C11: render submission is single-flight: while a render request is
\* outstanding a second submission from the Generate Render button cannot
\* start, so at most one request is in flight in every reachable state.
C11_SingleFlight == Len(pending) <= 1

\* C12: every render request that sets the rendering flag is eventually
\* followed by the flag being false again, whether the call returns or
\* throws, provided the external call eventually completes or fails.
C12_RenderingFlagCleared == isRendering ~> ~isRendering

\* C12 witness: the only request made has returned its image and the flag is
\* false again.
C12_Witness ==
    /\ last.op = "resolved" /\ sent = 1
    /\ ~isRendering
    /\ renderResult = Images[1]
    /\ pending = <<>>

\* C13: clearAll leaves the measurement store empty whatever its size was,
\* and does not change the object store, the selection or the tool mode.
C13_ClearAllEmptiesOnly ==
    [][last'.op = "clearAll" =>
        /\ measurements' = <<>>
        /\ objects' = objects
        /\ selectedId' = selectedId
        /\ mode' = mode]_vars

\* C13 witness: Clear All was pressed on a list that held a measurement,
\* with an object in the store and selected: the list is empty, the object,
\* the selection and the mode are still there.
C13_Witness ==
    /\ last.op = "clearAll" /\ last.idx >= 1
    /\ measurements = <<>>
    /\ Len(objects) = 1
    /\ selectedId = objects[1].id
    /\ mode = "MEASURE"

C15_MissingCanvasAborts ==
    [][(last'.op = "render" /\ ~canvasRef) =>
        /\ sent' = sent
        /\ pending' = pending
        /\ ~isRendering'
        /\ alerts' = alerts
        /\ logs' = logs
        /\ renderResult' = renderResult]_vars

\* C15 witness: Generate Render was pressed before the canvas was mounted
\* and nothing happened.
C15_Witness ==
    /\ last.op = "render" /\ ~canvasRef
    /\ sent = 0 /\ pending = <<>>
    /\ ~isRendering
    /\ alerts = 0 /\ logs = 0
    /\ renderResult = NoResult

\* C16: an upload with a file adds exactly one object of type uploaded that
\* carries the file's URL, position (0,2,0) and the color #cccccc, selects
\* it and sets the mode to MOVE; an upload with no file chosen leaves the
\* object store, the selection and the mode unchanged.
C16_Upload ==
    [][last'.op = "upload" =>
        IF last'.idx = 1
            THEN LET o == LastOf(objects')
                 IN  /\ Len(objects') = Len(objects) + 1
                     /\ SubSeq(objects', 1, Len(objects)) = objects
                     /\ o.type = "uploaded"
                     /\ \E file \in Files : o.fileUrl = file.url /\ o.name = file.name
                     /\ o.position = <<0, 4, 0>>
                     /\ o.color = "#cccccc"
                     /\ selectedId' = o.id
                     /\ mode' = "MOVE"
            ELSE /\ objects' = objects
                 /\ selectedId' = selectedId
                 /\ mode' = mode]_vars

\* C16 witness: a file was uploaded into a store that held an assembled
\* part, in a mode other than MOVE before; the upload is last, selected, and
\* the mode is MOVE.
C16_Witness ==
    /\ last.op = "upload" /\ last.idx = 1
    /\ Len(objects) >= 2
    /\ objects[1].type = "primitive"
    /\ LastOf(objects).type = "uploaded"
    /\ LastOf(objects).position = <<0, 4, 0>>
    /\ selectedId = LastOf(objects).id
    /\ mode = "MOVE"

\* C17: in every reachable state a transform gizmo is bound to an object
\* exactly when the object is the selected one and the mode is MOVE, ROTATE
\* or SCALE, so at most one gizmo exists and none in SELECT or MEASURE mode;
\* and each gizmo change updates only the position, rotation and scale of
\* the selected object, keeping its other fields and all other objects.
C17_GizmoBindingAndUpdates ==
    /\ [](\A i \in DOMAIN objects :
            /\ GizmoBound(i) <=> (/\ objects[i].id = selectedId
                                  /\ mode \in {"MOVE", "ROTATE", "SCALE"})
            /\ \A j \in DOMAIN objects : (GizmoBound(i) /\ GizmoBound(j)) => i = j
            /\ GizmoBound(i) => mode \notin {"SELECT", "MEASURE"})
    /\ [][last'.op = "gizmo" =>
            /\ Len(objects') = Len(objects)
            /\ \A i \in DOMAIN objects :
                  IF i = last'.idx
                      THEN \A f \in DOMAIN objects[i] \ {"position", "rotation", "scale"} :
                              objects'[i][f] = objects[i][f]
                      ELSE objects'[i] = objects[i]]_vars

\* C18: in every reachable state the selection is empty or is the id of an
\* object in the store, and at most one object is selected.
C18_SelectionInStore ==
    LET selected == {i \in DOMAIN objects : objects[i].id = selectedId}
    IN  IF selectedId = NoId THEN selected = {} ELSE Cardinality(selected) = 1

\* C19: no step removes or reorders objects: the sequence of object ids
\* before a step is a prefix of the sequence after it.
C19_NoRemovalNoReorder ==
    [][IsPrefix(IdsOf(objects), IdsOf(objects'))]_vars

\* C19 witness: a gizmo change was applied with two objects with different
\* ids in the store.
C19_Witness ==
    /\ last.op = "gizmo"
    /\ Len(objects) >= 2
    /\ objects[1].id # objects[2].id

\* C20: a measurement in the store keeps its points, its distance and its
\* place until clearAll: every step other than clearAll keeps the list as a
\* prefix (addMeasurement appends at the end, nothing else removes), and
\* clearAll is the only step that shortens it.
C20_MeasurementsImmutable ==
    [][/\ last'.op # "clearAll" => IsPrefix(measurements, measurements')
       /\ Len(measurements') < Len(measurements) => last'.op = "clearAll"
       /\ Len(measurements') <= Len(measurements) + 1]_vars

\* C20 witness: a second, different measurement was appended behind the
\* first.
C20_Witness ==
    /\ last.op = "canvasClick"
    /\ Len(measurements) = 2
    /\ measurements[1].endPoint # measurements[2].endPoint
    /\ measurements[1].distance # measurements[2].distance
    /\ measuringStart = NoPoint

C22_ToolModeAndToolbarFrame ==
    /\ mode = "SELECT"
    /\ [](mode \in Modes)
    /\ [][last'.op = "setMode" =>
            /\ mode' = ToolButtons[last'.idx]
            /\ objects' = objects
            /\ selectedId' = selectedId
            /\ measurements' = measurements]_vars

\* C22 witness: with an object stored and selected in MOVE mode, the Rotate
\* tool was chosen: the mode is ROTATE and the object is still selected.
C22_Witness ==
    /\ last.op = "setMode" /\ ToolButtons[last.idx] = "ROTATE"
    /\ mode = "ROTATE"
    /\ Len(objects) >= 1
    /\ selectedId = LastOf(objects).id

\* C23: in every reachable state the rendering flag is true exactly when a
\* render request is outstanding, also when a second submission overlaps
\* the first and the first completes.
C23_FlagIffOutstanding == isRendering <=> (pending # <<>>)

C25_AssembleSelectsLastInToggleOrder ==
    /\ [][last'.op = "togglePart" =>
            LET id == SYSTEM_PARTS[last'.idx].id
            IN  IF InSeq(selectedParts, id)
                    THEN selectedParts' = SelectSeq(selectedParts, LAMBDA x : x # id)
                    ELSE selectedParts' = selectedParts \o <<id>>]_vars
    /\ [][last'.op = "assemble" =>
            LET k == Len(selectedParts)
                n == Len(objects)
            IN  /\ k >= 1
                /\ Len(objects') = n + k
                /\ \A i \in 1 .. k :
                      objects'[n + i].name = PartById(selectedParts[i]).name
                /\ selectedId' = objects'[n + k].id
                /\ mode' = "MOVE"]_vars

\* C25 witness: part p2 was toggled in before p1 and the two were
\* assembled: p2's object comes first, p1's object is last and selected, and
\* the mode is MOVE.
C25_Witness ==
    /\ last.op = "assemble" /\ last.idx = 2
    /\ Len(objects) = 2
    /\ objects[1].name = SYSTEM_PARTS[2].name
    /\ objects[2].name = SYSTEM_PARTS[1].name
    /\ selectedId = objects[2].id
    /\ mode = "MOVE"

\* C26: the watermark text sent with a render request is the configuration
\* at submission: the configured text when the watermark is enabled, the
\* empty text when it is disabled; edits of the watermark after submission
\* do not change an outstanding request.
C26_WatermarkAtSubmission ==
    /\ [][(last'.op = "render" /\ canvasRef) =>
            /\ Len(pending') = Len(pending) + 1
            /\ LastOf(pending').wmText =
                  IF watermark.enabled THEN watermark.text ELSE ""]_vars
    /\ [][\A k \in DOMAIN pending :
            (\E j \in DOMAIN pending' : pending'[j].id = pending[k].id)
                => (\E j \in DOMAIN pending' : pending'[j] = pending[k])]_vars
    /\ [][last'.op \in {"watermarkEnabled", "watermarkText"} =>
            pending' = pending]_vars

\* C26 witness: a request was submitted with the watermark DRAFT, and while
\* it is outstanding the text was edited to FINAL: the request still
\* carries DRAFT.
C26_Witness ==
    /\ last.op = "watermarkText"
    /\ watermark.enabled /\ watermark.text = "FINAL"
    /\ Len(pending) = 1
    /\ pending[1].wmText = "DRAFT"

====
